---- MODULE Spec2Model ----
(***************************************************************************)
(* Codeforces problem tracker bot (src/index.js).                          *)
(*                                                                         *)
(* A JavaScript string is modelled as the sequence of its UTF-16 code      *)
(* units, so that Len is String.prototype.length and SubSeq(s, 1, n) is    *)
(* s.substring(0, n).  The literals below are the code units of the        *)
(* literals of the source.                                                 *)
(*                                                                         *)
(* getMedianRating may return a half-integer (the mean of two integer      *)
(* ratings).  The model keeps every median in HALF POINTS, i.e. as twice   *)
(* the JavaScript value, so that the arithmetic stays exact in the         *)
(* integers: "median >= r" is "median2 >= 2 * r" and Math.round(median)    *)
(* is (median2 + 1) \div 2.                                                *)
(***************************************************************************)
EXTENDS Integers, Sequences, FiniteSets

\* line 27
TWEET_CHAR_LIMIT == 280

PRAISE_CATEGORIES ==
  <<
    \* line 34: 70 code units
    [minProblems |-> 10, minMedianRating |-> 1600, message |->
      <<55357, 56613, 32, 65, 66, 83, 79, 76, 85, 84, 69, 32, 76, 69, 71, 69, 78, 68,
      33, 32, 49, 48, 43, 32, 112, 114, 111, 98, 108, 101, 109, 115, 32, 119, 105, 116,
      104, 32, 109, 101, 100, 105, 97, 110, 32, 49, 54, 48, 48, 43, 33, 32, 89, 111,
      117, 39, 114, 101, 32, 111, 110, 32, 102, 105, 114, 101, 33, 32, 55357, 56960>>],
    \* line 39: 74 code units
    [minProblems |-> 8, minMedianRating |-> 1400, message |->
      <<11088, 32, 79, 117, 116, 115, 116, 97, 110, 100, 105, 110, 103, 32, 119, 111,
      114, 107, 33, 32, 56, 43, 32, 112, 114, 111, 98, 108, 101, 109, 115, 32, 119, 105,
      116, 104, 32, 115, 111, 108, 105, 100, 32, 114, 97, 116, 105, 110, 103, 115, 33,
      32, 75, 101, 101, 112, 32, 116, 104, 105, 115, 32, 109, 111, 109, 101, 110, 116,
      117, 109, 33, 32, 55357, 56490>>],
    \* line 44: 69 code units
    [minProblems |-> 5, minMedianRating |-> 1200, message |->
      <<55356, 57263, 32, 71, 114, 101, 97, 116, 32, 103, 114, 105, 110, 100, 33, 32,
      53, 43, 32, 112, 114, 111, 98, 108, 101, 109, 115, 32, 115, 111, 108, 118, 101,
      100, 44, 32, 121, 111, 117, 39, 114, 101, 32, 98, 117, 105, 108, 100, 105, 110,
      103, 32, 115, 116, 114, 111, 110, 103, 32, 104, 97, 98, 105, 116, 115, 33, 32,
      55357, 56481>>],
    \* line 49: 50 code units
    [minProblems |-> 5, minMedianRating |-> 0, message |->
      <<9989, 32, 78, 105, 99, 101, 33, 32, 53, 43, 32, 112, 114, 111, 98, 108, 101,
      109, 115, 32, 115, 111, 108, 118, 101, 100, 46, 32, 67, 111, 110, 115, 105, 115,
      116, 101, 110, 99, 121, 32, 105, 115, 32, 107, 101, 121, 33, 32, 55357, 56520>>],
    \* line 54: 57 code units
    [minProblems |-> 3, minMedianRating |-> 1400, message |->
      <<55357, 56399, 32, 81, 117, 97, 108, 105, 116, 121, 32, 111, 118, 101, 114, 32,
      113, 117, 97, 110, 116, 105, 116, 121, 33, 32, 51, 43, 32, 116, 111, 117, 103,
      104, 32, 112, 114, 111, 98, 108, 101, 109, 115, 32, 99, 111, 110, 113, 117, 101,
      114, 101, 100, 33, 32, 55358, 56800>>],
    \* line 59: 48 code units
    [minProblems |-> 3, minMedianRating |-> 0, message |->
      <<55357, 56397, 32, 83, 111, 108, 105, 100, 32, 119, 111, 114, 107, 33, 32, 51,
      32, 112, 114, 111, 98, 108, 101, 109, 115, 32, 100, 111, 119, 110, 46, 32, 75,
      101, 101, 112, 32, 112, 117, 115, 104, 105, 110, 103, 33, 32, 55357, 56507>>],
    \* line 64: 62 code units
    [minProblems |-> 1, minMedianRating |-> 0, message |->
      <<10024, 32, 69, 118, 101, 114, 121, 32, 112, 114, 111, 98, 108, 101, 109, 32, 99,
      111, 117, 110, 116, 115, 33, 32, 71, 111, 111, 100, 32, 115, 116, 97, 114, 116,
      44, 32, 108, 101, 116, 39, 115, 32, 100, 111, 32, 109, 111, 114, 101, 32, 116,
      111, 109, 111, 114, 114, 111, 119, 33, 32, 55356, 57137>>]
  >>

INSULT_MESSAGES ==
  <<
    \* line 70: 67 code units
    <<90, 101, 114, 111, 32, 112, 114, 111, 98, 108, 101, 109, 115, 32, 115, 111, 108,
    118, 101, 100, 63, 32, 69, 118, 101, 110, 32, 97, 32, 112, 111, 116, 97, 116, 111,
    32, 99, 111, 117, 108, 100, 39, 118, 101, 32, 97, 116, 32, 108, 101, 97, 115, 116,
    32, 116, 114, 105, 101, 100, 32, 111, 110, 101, 46, 32, 55358, 56660>>,
    \* line 71: 102 code units
    <<67, 111, 110, 103, 114, 97, 116, 117, 108, 97, 116, 105, 111, 110, 115, 32, 111,
    110, 32, 97, 99, 104, 105, 101, 118, 105, 110, 103, 32, 97, 98, 115, 111, 108, 117,
    116, 101, 108, 121, 32, 110, 111, 116, 104, 105, 110, 103, 32, 116, 111, 100, 97,
    121, 46, 32, 89, 111, 117, 114, 32, 107, 101, 121, 98, 111, 97, 114, 100, 32, 109,
    117, 115, 116, 32, 98, 101, 32, 112, 114, 111, 117, 100, 32, 111, 102, 32, 105, 116,
    115, 32, 118, 97, 99, 97, 116, 105, 111, 110, 46, 32, 9000, 65039>>,
    \* line 72: 76 code units
    <<48, 32, 112, 114, 111, 98, 108, 101, 109, 115, 32, 115, 111, 108, 118, 101, 100,
    46, 32, 84, 104, 101, 32, 111, 110, 108, 121, 32, 116, 104, 105, 110, 103, 32, 121,
    111, 117, 39, 114, 101, 32, 115, 111, 108, 118, 105, 110, 103, 32, 105, 115, 32,
    104, 111, 119, 32, 116, 111, 32, 119, 97, 115, 116, 101, 32, 50, 52, 32, 104, 111,
    117, 114, 115, 46, 32, 9200>>,
    \* line 73: 87 code units
    <<89, 111, 117, 114, 32, 99, 111, 109, 112, 101, 116, 105, 116, 105, 118, 101, 32,
    112, 114, 111, 103, 114, 97, 109, 109, 105, 110, 103, 32, 99, 97, 114, 101, 101,
    114, 32, 105, 115, 32, 108, 111, 111, 107, 105, 110, 103, 32, 97, 115, 32, 101, 109,
    112, 116, 121, 32, 97, 115, 32, 121, 111, 117, 114, 32, 112, 114, 111, 98, 108, 101,
    109, 32, 99, 111, 117, 110, 116, 32, 116, 111, 100, 97, 121, 46, 32, 55357, 56521>>,
    \* line 74: 70 code units
    <<69, 118, 101, 110, 32, 72, 101, 108, 108, 111, 32, 87, 111, 114, 108, 100, 32,
    119, 111, 117, 108, 100, 110, 39, 116, 32, 119, 97, 110, 116, 32, 116, 111, 32, 98,
    101, 32, 115, 111, 108, 118, 101, 100, 32, 98, 121, 32, 121, 111, 117, 32, 116, 111,
    100, 97, 121, 46, 32, 80, 97, 116, 104, 101, 116, 105, 99, 46, 32, 55357, 56448>>,
    \* line 75: 74 code units
    <<50, 52, 32, 104, 111, 117, 114, 115, 32, 97, 110, 100, 32, 48, 32, 112, 114, 111,
    98, 108, 101, 109, 115, 63, 32, 89, 111, 117, 32, 99, 111, 117, 108, 100, 39, 118,
    101, 32, 97, 116, 32, 108, 101, 97, 115, 116, 32, 97, 99, 99, 105, 100, 101, 110,
    116, 97, 108, 108, 121, 32, 115, 111, 108, 118, 101, 100, 32, 111, 110, 101, 46, 32,
    55358, 56609>>,
    \* line 76: 81 code units
    <<89, 111, 117, 114, 32, 99, 111, 110, 115, 105, 115, 116, 101, 110, 99, 121, 32,
    105, 115, 32, 105, 109, 112, 114, 101, 115, 115, 105, 118, 101, 32, 45, 32, 99, 111,
    110, 115, 105, 115, 116, 101, 110, 116, 108, 121, 32, 100, 105, 115, 97, 112, 112,
    111, 105, 110, 116, 105, 110, 103, 46, 32, 48, 32, 112, 114, 111, 98, 108, 101, 109,
    115, 32, 97, 103, 97, 105, 110, 46, 32, 55357, 56884>>
  >>

\* line 170/186: '📊 CF Daily Report:\n\n', 21 code units
REPORT_TITLE ==
  <<55357, 56522, 32, 67, 70, 32, 68, 97, 105, 108, 121, 32, 82, 101, 112, 111, 114,
  116, 58, 10, 10>>

\* line 187: '✅ Problems: ', 12 code units
PROBLEMS_LABEL ==
  <<9989, 32, 80, 114, 111, 98, 108, 101, 109, 115, 58, 32>>

\* line 191: ' | 📈 Median: ', 14 code units
MEDIAN_LABEL ==
  <<32, 124, 32, 55357, 56520, 32, 77, 101, 100, 105, 97, 110, 58, 32>>

\* line 186/193: '\n\n', 2 code units
BLANK_LINE ==
  <<10, 10>>

\* line 195: '\n#Codeforces #CP #100DaysOfCode', 31 code units
FOOTER ==
  <<10, 35, 67, 111, 100, 101, 102, 111, 114, 99, 101, 115, 32, 35, 67, 80, 32, 35, 49,
  48, 48, 68, 97, 121, 115, 79, 102, 67, 111, 100, 101>>

\* line 202: '📝 Problems:\n', 13 code units
LIST_TITLE ==
  <<55357, 56541, 32, 80, 114, 111, 98, 108, 101, 109, 115, 58, 10>>

\* line 219: '...and ', 7 code units
AND_PREFIX ==
  <<46, 46, 46, 97, 110, 100, 32>>

\* line 219: ' more\n', 6 code units
MORE_SUFFIX ==
  <<32, 109, 111, 114, 101, 10>>

\* line 160: '...', 3 code units
ELLIPSIS ==
  <<46, 46, 46>>
(***************************************************************************)
(* Bounds of the model.                                                    *)
(***************************************************************************)
\* longest problem list handed to generateMessage
MaxProblems == 12
\* longest problem name (code units) in the uniform lists
MaxNameLen == 30
\* longest problem list with freely mixed ratings
MaxMixed == 4
\* longest submission batch handed to filterLast24Hours
MaxSubs == 3
\* the reference instant Math.floor(Date.now() / 1000) of the first window
Now == 1700000000
\* number of invocations of dailyTask
MaxRuns == 2
\* number of midnights (cron firings)
MaxDays == 1

\* problem ratings of the judge (0 = unrated)
Ratings == {0, 800, 1200, 1400, 1600}

Range(s) == {s[i] : i \in 1..Len(s)}

(***************************************************************************)
(* String helpers.                                                         *)
(***************************************************************************)
\* `${n}` for a non-negative integer n: its decimal digits
RECURSIVE NumberToString(_)
NumberToString(n) ==
  IF n < 10 THEN <<48 + n>> ELSE NumberToString(n \div 10) \o <<48 + (n % 10)>>

\* Math.round of a non-negative value given in half points
MathRound(median2) == (median2 + 1) \div 2

(***************************************************************************)
(* filterLast24Hours, lines 117-138.  A submission is a record             *)
(* [creationTimeSeconds, verdict, problem], its problem a record           *)
(* [contestId, index, name, rating]; rating is <<>> when the judge gives   *)
(* none and <<r>> otherwise.                                               *)
(***************************************************************************)
\* variant: the cutoff itself is excluded
qualifies_Strict(sub, yesterday) ==
  sub.creationTimeSeconds > yesterday /\ sub.verdict = "OK"

\* line 124
qualifies(sub, yesterday) ==
  sub.creationTimeSeconds >= yesterday /\ sub.verdict = "OK"

\* variant: the key is the index alone
problemKey_IndexOnly(problem) == problem.index

\* line 125: `${sub.problem.contestId}${sub.problem.index}`
problemKey(problem) == NumberToString(problem.contestId) \o problem.index

\* sub.problem.rating || 0
ratingOrZero(rating) == IF rating = <<>> THEN 0 ELSE rating[1]

\* lines 127-132
solvedEntry(problem) ==
  [name      |-> problem.name,
   rating    |-> ratingOrZero(problem.rating),
   contestId |-> problem.contestId,
   index     |-> problem.index]

\* lines 123-135: forEach from position i on; solvedProblems is the Map, a
\* sequence of [key, value] in insertion order
RECURSIVE forEachSubmission(_, _, _, _)
forEachSubmission(subs, yesterday, i, solvedProblems) ==
  IF i > Len(subs) THEN solvedProblems
  ELSE LET sub == subs[i]
           key == problemKey(sub.problem)
           has == \E k \in 1..Len(solvedProblems) : solvedProblems[k].key = key
       IN  forEachSubmission(subs, yesterday, i + 1,
             IF qualifies(sub, yesterday) /\ ~has
             THEN Append(solvedProblems,
                         [key |-> key, value |-> solvedEntry(sub.problem)])
             ELSE solvedProblems)

filterLast24Hours(subs, nowSeconds) ==
  LET yesterday == nowSeconds - 24 * 60 * 60
      solvedProblems == forEachSubmission(subs, yesterday, 1, <<>>)
  IN  [k \in 1..Len(solvedProblems) |-> solvedProblems[k].value]

(***************************************************************************)
(* getMedianRating, lines 141-151.  The result is in half points.          *)
(***************************************************************************)
RECURSIVE SortedInsert(_, _)
SortedInsert(x, s) ==
  IF s = <<>> THEN <<x>>
  ELSE IF x < Head(s) THEN <<x>> \o s
  ELSE <<Head(s)>> \o SortedInsert(x, Tail(s))

\* .sort((a, b) => a - b)
RECURSIVE SortAscending(_)
SortAscending(s) ==
  IF s = <<>> THEN <<>> ELSE SortedInsert(Head(s), SortAscending(Tail(s)))

\* variant: the unrated entries are kept
RatedOnly_KeepUnrated(problems) ==
  [i \in 1..Len(problems) |-> problems[i].rating]

\* problems.map(p => p.rating).filter(r => r > 0)
RatedOnly(problems) ==
  SelectSeq([i \in 1..Len(problems) |-> problems[i].rating], LAMBDA r : r > 0)

getMedianRating(problems) ==
  IF Len(problems) = 0 THEN 0
  ELSE LET ratings == SortAscending(RatedOnly(problems))
           mid == Len(ratings) \div 2
       IN  IF Len(ratings) = 0 THEN 0
           ELSE IF Len(ratings) % 2 = 0
                THEN ratings[mid] + ratings[mid + 1]
                ELSE 2 * ratings[mid + 1]

(***************************************************************************)
(* truncateToLimit, lines 154-161.                                         *)
(***************************************************************************)
\* variant: the ellipsis is appended to a full-length prefix
truncateToLimit_NoRoom(message, limit) ==
  IF Len(message) <= limit THEN message
  ELSE SubSeq(message, 1, limit) \o ELLIPSIS

truncateToLimit(message, limit) ==
  IF Len(message) <= limit THEN message
  ELSE SubSeq(message, 1, limit - 3) \o ELLIPSIS

(***************************************************************************)
(* generateMessage, lines 164-235.                                         *)
(***************************************************************************)
\* lines 168-172: the zero-count report; rnd is
\* Math.floor(Math.random() * INSULT_MESSAGES.length).
\* Variant: the insult alone, without the report title
insultReport_NoTitle(rnd) ==
  truncateToLimit(INSULT_MESSAGES[rnd + 1], TWEET_CHAR_LIMIT)

insultReport(rnd) ==
  truncateToLimit(REPORT_TITLE \o INSULT_MESSAGES[rnd + 1], TWEET_CHAR_LIMIT)

\* lines 177-183: position of the first matching category, 0 when none
\* matches (praise stays '')
RECURSIVE praiseScan(_, _, _)
praiseScan(count, median2, i) ==
  IF i > Len(PRAISE_CATEGORIES) THEN 0
  ELSE IF /\ count >= PRAISE_CATEGORIES[i].minProblems
          /\ median2 >= 2 * PRAISE_CATEGORIES[i].minMedianRating
       THEN i
       ELSE praiseScan(count, median2, i + 1)

\* variant: no break, the last matching category wins
praiseIndex_LastMatch(count, median2) ==
  LET M == {i \in 1..Len(PRAISE_CATEGORIES) :
              /\ count >= PRAISE_CATEGORIES[i].minProblems
              /\ median2 >= 2 * PRAISE_CATEGORIES[i].minMedianRating}
  IN  IF M = {} THEN 0 ELSE CHOOSE i \in M : \A j \in M : j <= i

\* variant: the count comparison is the wrong way round
praiseIndex_FlippedCount(count, median2) ==
  LET M == {i \in 1..Len(PRAISE_CATEGORIES) :
              /\ count <= PRAISE_CATEGORIES[i].minProblems
              /\ median2 >= 2 * PRAISE_CATEGORIES[i].minMedianRating}
  IN  IF M = {} THEN 0 ELSE CHOOSE i \in M : \A j \in M : i <= j

praiseIndex(count, median2) == praiseScan(count, median2, 1)

praiseText(idx) == IF idx = 0 THEN <<>> ELSE PRAISE_CATEGORIES[idx].message

\* lines 186-193
buildHeader(praise, count, median2) ==
  REPORT_TITLE \o praise \o BLANK_LINE \o PROBLEMS_LABEL \o NumberToString(count)
    \o (IF median2 > 0 THEN MEDIAN_LABEL \o NumberToString(MathRound(median2)) ELSE <<>>)
    \o BLANK_LINE

\* variant: without the 10 character buffer
availableSpaceFor_NoBuffer(header) ==
  TWEET_CHAR_LIMIT - (Len(header) + Len(FOOTER))

\* line 199
availableSpaceFor(header) ==
  TWEET_CHAR_LIMIT - (Len(header) + Len(FOOTER)) - 10

\* lines 208-209; i is the 1-based position, the source's i + 1
problemLine(i, p) ==
  NumberToString(i) \o <<46, 32>> \o p.name
    \o (IF p.rating # 0 THEN <<32, 91>> \o NumberToString(p.rating) \o <<93>> ELSE <<>>)
    \o <<10>>

\* lines 206-223: the loop from position i on, acc holding problemsList,
\* currentLength and problemsAdded
RECURSIVE listLoop(_, _, _, _)
listLoop(problems, availableSpace, i, acc) ==
  IF i > Len(problems) THEN acc
  ELSE LET line == problemLine(i, problems[i])
       IN  IF acc.currentLength + Len(line) <= availableSpace
           THEN listLoop(problems, availableSpace, i + 1,
                  [problemsList  |-> acc.problemsList \o line,
                   currentLength |-> acc.currentLength + Len(line),
                   problemsAdded |-> acc.problemsAdded + 1])
           ELSE LET remaining == Len(problems) - acc.problemsAdded
                IN  [acc EXCEPT !.problemsList =
                       IF remaining > 0
                       THEN @ \o AND_PREFIX \o NumberToString(remaining) \o MORE_SUFFIX
                       ELSE @]

\* lines 202-223
buildProblemsList(problems, availableSpace) ==
  listLoop(problems, availableSpace, 1,
           [problemsList  |-> LIST_TITLE,
            currentLength |-> Len(LIST_TITLE),
            problemsAdded |-> 0])

\* lines 174-225 for a non-empty list: everything the function computes on
\* the way to finalMessage
compose(problems) ==
  LET count   == Len(problems)
      median2 == getMedianRating(problems)
      idx     == praiseIndex(count, median2)
      header  == buildHeader(praiseText(idx), count, median2)
      list    == buildProblemsList(problems, availableSpaceFor(header))
  IN  [median2       |-> median2,
       praiseIdx     |-> idx,
       header        |-> header,
       problemsList  |-> list.problemsList,
       problemsAdded |-> list.problemsAdded,
       finalMessage  |-> header \o list.problemsList \o FOOTER]

\* lines 227-234: the final safety check
safetyCheck(finalMessage) ==
  IF Len(finalMessage) > TWEET_CHAR_LIMIT
  THEN truncateToLimit(finalMessage, TWEET_CHAR_LIMIT)
  ELSE finalMessage

generateMessage(problems, rnd) ==
  IF Len(problems) = 0 THEN insultReport(rnd)
  ELSE safetyCheck(compose(problems).finalMessage)

(***************************************************************************)
(* postToX and dailyTask, lines 238-307, and the two triggers, lines       *)
(* 311-328.  A run is one invocation of dailyTask; its pc is the await it  *)
(* is suspended at: "fetch" (axios.get, line 101), "auth" (client.v2.me(), *)
(* line 251), "tweet" (client.v2.tweet(message), line 261).                *)
(***************************************************************************)
IdleRun ==
  [pc |-> "idle", trigger |-> "none", calls |-> <<>>, fetchFailed |-> FALSE,
   submissions |-> <<>>, problems |-> <<>>, message |-> <<>>,
   postArg |-> <<>>, outcome |-> "none"]

\* lines 288-293 and 99-103: dailyTask up to the await of axios.get
startDailyTask(trigger) ==
  [IdleRun EXCEPT !.pc = "fetch", !.trigger = trigger,
                  !.calls = <<"fetchRecentSubmissions">>]

\* lines 105-113: what fetchRecentSubmissions returns for a response of the
\* judge; a thrown request and a status other than 'OK' both give []
fetchResult(response) ==
  IF response.status = "OK" THEN response.result ELSE <<>>

\* variant: nothing is posted when no problem was solved
dailyTaskAfterFetch_SkipEmpty(run, response, nowSeconds, r) ==
  LET submissions == fetchResult(response)
      recent      == filterLast24Hours(submissions, nowSeconds)
      text        == generateMessage(recent, r)
  IN  IF recent = <<>>
      THEN [run EXCEPT !.pc = "done", !.outcome = "completed",
                       !.fetchFailed = response.status # "OK",
                       !.submissions = submissions, !.problems = recent,
                       !.message = text,
                       !.calls = @ \o <<"filterLast24Hours", "generateMessage">>]
      ELSE [run EXCEPT !.pc = "auth",
                       !.fetchFailed = response.status # "OK",
                       !.submissions = submissions, !.problems = recent,
                       !.message = text, !.postArg = text,
                       !.calls = @ \o <<"filterLast24Hours", "generateMessage",
                                        "postToX">>]

\* lines 293-301 and 238-251: dailyTask from the return of the fetch to the
\* await of client.v2.me() in postToX(message)
dailyTaskAfterFetch(run, response, nowSeconds, r) ==
  LET submissions == fetchResult(response)
      recent      == filterLast24Hours(submissions, nowSeconds)
      text        == generateMessage(recent, r)
  IN  [run EXCEPT !.pc = "auth",
                  !.fetchFailed = response.status # "OK",
                  !.submissions = submissions, !.problems = recent,
                  !.message = text, !.postArg = text,
                  !.calls = @ \o <<"filterLast24Hours", "generateMessage",
                                   "postToX">>]

(***************************************************************************)
(* State.                                                                  *)
(***************************************************************************)
VARIABLES
  pc,           \* position of the run of the core
  now,          \* Math.floor(Date.now() / 1000)
  submissions,  \* the batch handed to filterLast24Hours
  problems,     \* the problem list: result of filterLast24Hours, argument
                \* of getMedianRating and generateMessage
  rnd,          \* the random index drawn by generateMessage
  trace,        \* what generateMessage computed: median2, praiseIdx, ...
  median,       \* result of getMedianRating, in half points
  message,      \* result of generateMessage
  runs,         \* the invocations of dailyTask
  day,          \* the 24-hour window of the cron schedule the server is in
  tweets        \* the reports published, each with its run and its window

vars ==
  <<pc, now, submissions, problems, rnd, trace, median, message, runs, day,
    tweets>>

coreVars == <<pc, submissions, problems, rnd, trace, median, message>>
serverVars == <<runs, day, tweets>>

NoTrace ==
  [median2 |-> 0, praiseIdx |-> 0, header |-> <<>>, problemsList |-> <<>>,
   problemsAdded |-> 0, finalMessage |-> <<>>]

CoreIdle ==
  /\ pc = "input"
  /\ rnd = 0
  /\ trace = NoTrace
  /\ median = 0
  /\ message = <<>>

ServerIdle ==
  /\ runs = [i \in 1..MaxRuns |-> IdleRun]
  /\ day = 0
  /\ tweets = {}

(***************************************************************************)
(* SpecMessage: getMedianRating and generateMessage on problem lists.      *)
(***************************************************************************)
Name(i, len) == [k \in 1..len |-> 96 + i]

\* a problem as filterLast24Hours builds it (lines 127-132)
Problem(i, len, rating) ==
  [name |-> Name(i, len), rating |-> rating, contestId |-> 1000 + i,
   index |-> <<65>>]

\* lists of up to MaxMixed problems with short names and any ratings
MixedLists ==
  UNION {{[i \in 1..n |-> Problem(i, 2, rs[i])] : rs \in [1..n -> Ratings]}
          : n \in 0..MaxMixed}

\* lists of up to MaxProblems problems, all with names of the same length
\* and the same rating
UniformLists ==
  {[i \in 1..n |-> Problem(i, len, r)] :
     n \in 0..MaxProblems, len \in 1..MaxNameLen, r \in Ratings}

InitMessage ==
  /\ CoreIdle
  /\ ServerIdle
  /\ now = Now
  /\ submissions = <<>>
  /\ problems \in MixedLists \cup UniformLists

CallGetMedianRating ==
  /\ pc = "input"
  /\ pc' = "median"
  /\ median' = getMedianRating(problems)
  /\ UNCHANGED <<now, submissions, problems, rnd, trace, message, serverVars>>

CallGenerateMessage ==
  /\ pc = "input"
  /\ pc' = "message"
  /\ \E r \in 0..(Len(INSULT_MESSAGES) - 1) :
       /\ rnd' = (IF Len(problems) = 0 THEN r ELSE 0)
       /\ message' = generateMessage(problems, r)
  /\ trace' = (IF Len(problems) = 0 THEN NoTrace ELSE compose(problems))
  /\ median' = (IF Len(problems) = 0 THEN 0 ELSE getMedianRating(problems))
  /\ UNCHANGED <<now, submissions, problems, serverVars>>

NextMessage == CallGetMedianRating \/ CallGenerateMessage

SpecMessage == InitMessage /\ [][NextMessage]_vars

(***************************************************************************)
(* SpecFilter: filterLast24Hours on submission batches.                    *)
(***************************************************************************)
\* problem descriptors of the judge: two reports of problem 1A that differ
\* in name and rating, and 11A and 1A1, whose keys share their characters
\* with 1A
Descriptors ==
  {[contestId |-> 1,  index |-> <<65>>,     name |-> <<120>>, rating |-> <<800>>],
   [contestId |-> 1,  index |-> <<65>>,     name |-> <<121>>, rating |-> <<>>],
   [contestId |-> 11, index |-> <<65>>,     name |-> <<122>>, rating |-> <<1200>>],
   [contestId |-> 1,  index |-> <<65, 49>>, name |-> <<119>>, rating |-> <<>>]}

\* creation time and verdict: one second before the cutoff, at the cutoff,
\* at the reference instant, one second after it (the judge's clock is not
\* the server's), and a rejected submission inside the window
StampsAndVerdicts(nowSeconds) ==
  {<<nowSeconds - 24 * 60 * 60 - 1, "OK">>,
   <<nowSeconds - 24 * 60 * 60, "OK">>,
   <<nowSeconds, "OK">>,
   <<nowSeconds + 1, "OK">>,
   <<nowSeconds - 24 * 60 * 60, "WRONG_ANSWER">>}

Submissions(nowSeconds) ==
  {[creationTimeSeconds |-> sv[1], verdict |-> sv[2], problem |-> d] :
     sv \in StampsAndVerdicts(nowSeconds), d \in Descriptors}

Batches(nowSeconds) ==
  UNION {[1..n -> Submissions(nowSeconds)] : n \in 0..MaxSubs}

InitFilter ==
  /\ CoreIdle
  /\ ServerIdle
  /\ now = Now
  /\ submissions \in Batches(Now)
  /\ problems = <<>>

CallFilterLast24Hours ==
  /\ pc = "input"
  /\ pc' = "filtered"
  /\ problems' = filterLast24Hours(submissions, now)
  /\ UNCHANGED <<now, submissions, rnd, trace, median, message, serverVars>>

NextFilter == CallFilterLast24Hours

SpecFilter == InitFilter /\ [][NextFilter]_vars

(***************************************************************************)
(* Spec: the server, with the cron schedule and POST /trigger starting     *)
(* runs of dailyTask that interleave at their awaits.                      *)
(***************************************************************************)
\* what the judge may answer: the solved problem 1A (twice) and an old
\* 11A, a status other than 'OK', or no answer at all
Responses(nowSeconds) ==
  {[status |-> "OK", result |->
      <<[creationTimeSeconds |-> nowSeconds - 3600, verdict |-> "OK",
         problem |-> [contestId |-> 1, index |-> <<65>>, name |-> <<120>>,
                      rating |-> <<800>>]],
        [creationTimeSeconds |-> nowSeconds - 7200, verdict |-> "OK",
         problem |-> [contestId |-> 1, index |-> <<65>>, name |-> <<120>>,
                      rating |-> <<800>>]],
        [creationTimeSeconds |-> nowSeconds - 90000, verdict |-> "OK",
         problem |-> [contestId |-> 11, index |-> <<65>>, name |-> <<122>>,
                      rating |-> <<1200>>]]>>],
   [status |-> "FAILED", result |-> <<>>],
   [status |-> "NETWORK_ERROR", result |-> <<>>]}

Init ==
  /\ CoreIdle
  /\ ServerIdle
  /\ now = Now
  /\ submissions = <<>>
  /\ problems = <<>>

\* the next free run
Free(i) ==
  /\ runs[i].pc = "idle"
  /\ \A j \in 1..(i - 1) : runs[j].pc # "idle"

\* lines 311-316: midnight IST is reached, the cron callback calls
\* dailyTask() without awaiting it
CronFire ==
  /\ day < MaxDays
  /\ \E i \in 1..MaxRuns :
       /\ Free(i)
       /\ runs' = [runs EXCEPT ![i] = startDailyTask("cron")]
  /\ day' = day + 1
  /\ now' = now + 24 * 60 * 60
  /\ UNCHANGED <<coreVars, tweets>>

\* lines 321-323: POST /trigger awaits dailyTask()
ManualTrigger ==
  /\ \E i \in 1..MaxRuns :
       /\ Free(i)
       /\ runs' = [runs EXCEPT ![i] = startDailyTask("manual")]
  /\ UNCHANGED <<coreVars, now, day, tweets>>

\* the judge answers, or the request fails
FetchReturns ==
  /\ \E i \in 1..MaxRuns, response \in Responses(now),
        r \in 0..(Len(INSULT_MESSAGES) - 1) :
       /\ runs[i].pc = "fetch"
       /\ runs' = [runs EXCEPT
                     ![i] = dailyTaskAfterFetch(runs[i], response, now, r)]
  /\ UNCHANGED <<coreVars, now, day, tweets>>

\* lines 251-261: client.v2.me() resolves, the tweet is sent
AuthOK ==
  /\ \E i \in 1..MaxRuns :
       /\ runs[i].pc = "auth"
       /\ runs' = [runs EXCEPT ![i].pc = "tweet"]
  /\ UNCHANGED <<coreVars, now, day, tweets>>

\* lines 253-257, 266-283, 304-306: client.v2.me() rejects; postToX
\* rethrows and dailyTask logs the error
AuthFails ==
  /\ \E i \in 1..MaxRuns :
       /\ runs[i].pc = "auth"
       /\ runs' = [runs EXCEPT ![i].pc = "done", ![i].outcome = "error"]
  /\ UNCHANGED <<coreVars, now, day, tweets>>

\* lines 261-265, 303: the tweet is published
TweetOK ==
  /\ \E i \in 1..MaxRuns :
       /\ runs[i].pc = "tweet"
       /\ runs' = [runs EXCEPT ![i].pc = "done", ![i].outcome = "completed"]
       /\ tweets' = tweets \cup
                      {[run |-> i, day |-> day, text |-> runs[i].postArg]}
  /\ UNCHANGED <<coreVars, now, day>>

\* lines 266-283, 304-306: client.v2.tweet rejects
TweetFails ==
  /\ \E i \in 1..MaxRuns :
       /\ runs[i].pc = "tweet"
       /\ runs' = [runs EXCEPT ![i].pc = "done", ![i].outcome = "error"]
  /\ UNCHANGED <<coreVars, now, day, tweets>>

Next ==
  \/ CronFire
  \/ ManualTrigger
  \/ FetchReturns
  \/ AuthOK
  \/ AuthFails
  \/ TweetOK
  \/ TweetFails

Spec == Init /\ [][Next]_vars

(***************************************************************************)
(* Properties of the message engine, checked under SpecMessage.            *)
(***************************************************************************)
Generated == pc = "message"

\* C1: whatever the problem list, the string generateMessage returns is at
\* most TWEET_CHAR_LIMIT (280) code units long.  The source has no
\* Brief-mode rendering, so the length bound is the whole of the claim.
C1_WithinBudget == Generated => Len(message) <= TWEET_CHAR_LIMIT

\* the safety check of lines 227-231 fired: the composed text was too long
C1_Witness ==
  /\ Generated
  /\ Len(trace.finalMessage) > TWEET_CHAR_LIMIT
  /\ Len(message) = TWEET_CHAR_LIMIT

\* the ratings > 0 of the list, in input order
PositiveRatings ==
  SelectSeq([i \in 1..Len(problems) |-> problems[i].rating], LAMBDA r : r > 0)

\* the k-th smallest element of s, by counting
KthSmallest(s, k) ==
  CHOOSE x \in Range(s) :
    /\ Cardinality({i \in 1..Len(s) : s[i] < x}) < k
    /\ Cardinality({i \in 1..Len(s) : s[i] <= x}) >= k

\* the median of the ratings > 0, in half points
MedianOfRated ==
  LET n == Len(PositiveRatings)
  IN  IF n = 0 THEN 0
      ELSE IF n % 2 = 1 THEN 2 * KthSmallest(PositiveRatings, (n + 1) \div 2)
      ELSE KthSmallest(PositiveRatings, n \div 2)
             + KthSmallest(PositiveRatings, n \div 2 + 1)

\* C4: getMedianRating returns the median of the ratings > 0 only: 0 when
\* there is none, the middle one of an odd number, the mean of the two
\* middle ones of an even number; unrated entries do not shift it.
C4_Median == pc = "median" => median = MedianOfRated

\* an even number of rated problems with different middle elements, next to
\* an unrated one
C4_Witness ==
  /\ pc = "median"
  /\ Len(problems) > Len(PositiveRatings)
  /\ Len(PositiveRatings) = 2
  /\ PositiveRatings[1] # PositiveRatings[2]
  /\ median = PositiveRatings[1] + PositiveRatings[2]

\* the categories a (count, median) pair satisfies
Matching(count, median2) ==
  {i \in 1..Len(PRAISE_CATEGORIES) :
     /\ count >= PRAISE_CATEGORIES[i].minProblems
     /\ median2 >= 2 * PRAISE_CATEGORIES[i].minMedianRating}

\* C5: for count >= 1 the praise in the message is the message of the first
\* category, top to bottom, with count >= minProblems and median >=
\* minMedianRating; one always exists, so the praise is never empty.
C5_FirstMatch ==
  (Generated /\ Len(problems) >= 1) =>
    LET M == Matching(Len(problems), median)
    IN  /\ M # {}
        /\ \E i \in M :
             /\ \A j \in M : i <= j
             /\ PRAISE_CATEGORIES[i].message # <<>>
             /\ SubSeq(message, 1, Len(REPORT_TITLE)
                                     + Len(PRAISE_CATEGORIES[i].message))
                  = REPORT_TITLE \o PRAISE_CATEGORIES[i].message

\* a list that satisfies several categories, of which the first is not the
\* topmost of the table
C5_Witness ==
  /\ Generated
  /\ Len(problems) >= 1
  /\ Cardinality(Matching(Len(problems), median)) >= 3
  /\ 1 \notin Matching(Len(problems), median)

\* position in the table of the category selected for (count, median); past
\* the end when none is selected
Position(count, median2) ==
  IF praiseIndex(count, median2) = 0 THEN Len(PRAISE_CATEGORIES) + 1
  ELSE praiseIndex(count, median2)

SelectedPosition ==
  IF trace.praiseIdx = 0 THEN Len(PRAISE_CATEGORIES) + 1 ELSE trace.praiseIdx

\* C6: for a fixed median, a larger solved count never selects a category
\* further down the table than a smaller count does.
C6_Monotone ==
  (Generated /\ Len(problems) >= 1) =>
    \A c \in 1..(MaxProblems + 1) :
      /\ c <= Len(problems) => SelectedPosition <= Position(c, median)
      /\ c >= Len(problems) => Position(c, median) <= SelectedPosition

\* a run whose category is strictly above the one a smaller count selects
\* and strictly below the one a larger count selects, for the same median
C6_Witness ==
  /\ Generated
  /\ Len(problems) >= 1
  /\ \E c \in 1..MaxProblems :
       c < Len(problems) /\ SelectedPosition < Position(c, median)
  /\ \E c \in 1..MaxProblems :
       c > Len(problems) /\ Position(c, median) < SelectedPosition

\* the lines of the first k problems
RECURSIVE Lines(_)
Lines(k) == IF k = 0 THEN <<>> ELSE Lines(k - 1) \o problemLine(k, problems[k])

\* the first k lines fit under the list title in the space left: the limit
\* less the header, the footer and a buffer of 10
Fits(k) ==
  Len(LIST_TITLE) + Len(Lines(k))
    <= TWEET_CHAR_LIMIT - Len(trace.header) - Len(FOOTER) - 10

\* "...and N more\n"
Indicator(n) == AND_PREFIX \o NumberToString(n) \o MORE_SUFFIX

\* C7 as stated: the rendering is selected by the solved count alone: all
\* problems for count <= 5, the first 3 and a remainder of count - 3 for
\* 6 <= count <= 10, no problem for count > 10.
C7_ModeByCount ==
  (Generated /\ Len(problems) >= 1) =>
    LET count == Len(problems)
    IN  /\ count <= 5 => trace.problemsList = LIST_TITLE \o Lines(count)
        /\ (6 <= count /\ count <= 10) =>
             trace.problemsList = LIST_TITLE \o Lines(3) \o Indicator(count - 3)
        /\ count > 10 => trace.problemsAdded = 0

\* C7 as amended: the listing is selected by the space left, not by the
\* count: the problems are listed in order as long as their lines fit; all
\* of them when they all fit in 280 - header - footer - 10 code units,
\* otherwise the longest prefix that fits, followed by "...and N more" with
\* N = count - number listed.
C7_FitBySpace ==
  (Generated /\ Len(problems) >= 1) =>
    LET count == Len(problems)
        k     == trace.problemsAdded
    IN  /\ k \in 0..count
        /\ Fits(k)
        /\ k < count => ~Fits(k + 1)
        /\ trace.problemsList =
             LIST_TITLE \o Lines(k) \o (IF k < count THEN Indicator(count - k) ELSE <<>>)
        /\ trace.finalMessage = trace.header \o trace.problemsList \o FOOTER
        /\ message = safetyCheck(trace.finalMessage)

\* eleven problems of which some, but not all, are listed before the
\* remainder indicator
C7_Witness ==
  /\ Generated
  /\ Len(problems) = 11
  /\ trace.problemsAdded \in 4..10

\* C8 as stated: generateMessage([]) is, verbatim, one of INSULT_MESSAGES.
C8_VerbatimInsult ==
  (Generated /\ Len(problems) = 0) => message \in Range(INSULT_MESSAGES)

\* C8 as amended: generateMessage([]) is the report title
\* "CF Daily Report:" and a blank line followed by the drawn element of
\* INSULT_MESSAGES, verbatim.
C8_TitledInsult ==
  (Generated /\ Len(problems) = 0) =>
    /\ message = REPORT_TITLE \o INSULT_MESSAGES[rnd + 1]
    /\ Len(message) <= TWEET_CHAR_LIMIT

C8_Witness ==
  /\ Generated
  /\ Len(problems) = 0
  /\ rnd = Len(INSULT_MESSAGES) - 1

(***************************************************************************)
(* Properties of filterLast24Hours, checked under SpecFilter.              *)
(***************************************************************************)
Filtered == pc = "filtered"

Cutoff == now - 24 * 60 * 60

\* the (contestId, index) pair of a submission or of a result entry
PairOfSub(i) == <<submissions[i].problem.contestId, submissions[i].problem.index>>
PairOfEntry(k) == <<problems[k].contestId, problems[k].index>>

\* positions of the submissions the normalizer takes into account
Qualifying ==
  {i \in 1..Len(submissions) :
     /\ submissions[i].verdict = "OK"
     /\ submissions[i].creationTimeSeconds >= Cutoff}

\* positions of the first qualifying submission of each pair
FirstArrivals ==
  {i \in Qualifying : \A j \in Qualifying : j < i => PairOfSub(j) # PairOfSub(i)}

\* the k-th smallest position of a set of positions
KthPosition(S, k) == CHOOSE i \in S : Cardinality({j \in S : j <= i}) = k

\* C2: the result holds exactly one entry per distinct (contestId, index)
\* pair among the qualifying submissions, in order of first arrival, each
\* with the name and the rating (0 when the judge gives none) of the first
\* qualifying submission of its pair.
C2_Dedup ==
  Filtered =>
    /\ Len(problems) = Cardinality({PairOfSub(i) : i \in Qualifying})
    /\ Len(problems) = Cardinality(FirstArrivals)
    /\ \A k \in 1..Len(problems) :
         LET p == submissions[KthPosition(FirstArrivals, k)].problem
         IN  /\ PairOfEntry(k) = <<p.contestId, p.index>>
             /\ problems[k].name = p.name
             /\ problems[k].rating = (IF p.rating = <<>> THEN 0 ELSE p.rating[1])

\* three qualifying submissions: two of one pair that differ in name and
\* rating, then one of another pair with the same contest or index
C2_Witness ==
  /\ Filtered
  /\ Len(submissions) = 3
  /\ Qualifying = {1, 2, 3}
  /\ PairOfSub(1) = PairOfSub(2)
  /\ submissions[1].problem # submissions[2].problem
  /\ PairOfSub(3) # PairOfSub(1)
  /\ Len(problems) = 2

\* the pairs of the result
ResultPairs == {PairOfEntry(k) : k \in 1..Len(problems)}

\* C3 as stated: a submission contributes iff its verdict is 'OK' and its
\* timestamp lies in [now - 86400, now].
C3_ClosedWindow ==
  Filtered =>
    ResultPairs =
      {PairOfSub(i) : i \in {j \in 1..Len(submissions) :
         /\ submissions[j].verdict = "OK"
         /\ submissions[j].creationTimeSeconds >= now - 86400
         /\ submissions[j].creationTimeSeconds <= now}}

\* C3 as amended: a submission contributes iff its verdict is 'OK' and its
\* timestamp is at least now - 86400; no upper end is checked, so a
\* timestamp after now contributes too.  One at exactly now - 86400 is
\* included, one at now - 86400 - 1 is excluded.
C3_OpenWindow ==
  Filtered =>
    /\ ResultPairs =
         {PairOfSub(i) : i \in {j \in 1..Len(submissions) :
            /\ submissions[j].verdict = "OK"
            /\ submissions[j].creationTimeSeconds >= now - 86400}}
    /\ \A i \in 1..Len(submissions) :
         (Len(submissions) = 1 /\ submissions[i].verdict = "OK") =>
           /\ submissions[i].creationTimeSeconds = now - 86400
                => Len(problems) = 1
           /\ submissions[i].creationTimeSeconds = now - 86400 - 1
                => Len(problems) = 0

\* accepted submissions of three different problems: one second too old,
\* exactly at the cutoff, and one second after the reference instant
C3_Witness ==
  /\ Filtered
  /\ Len(submissions) = 3
  /\ \A i \in 1..3 : submissions[i].verdict = "OK"
  /\ submissions[1].creationTimeSeconds = now - 86400 - 1
  /\ submissions[2].creationTimeSeconds = now - 86400
  /\ submissions[3].creationTimeSeconds = now + 1
  /\ Cardinality({PairOfSub(1), PairOfSub(2), PairOfSub(3)}) = 3
  /\ ResultPairs = {PairOfSub(2), PairOfSub(3)}

(***************************************************************************)
(* Properties of the server, checked under Spec.                           *)
(***************************************************************************)
ExpectedCalls ==
  <<"fetchRecentSubmissions", "filterLast24Hours", "generateMessage", "postToX">>

IsPrefix(s, t) == Len(s) <= Len(t) /\ s = SubSeq(t, 1, Len(s))

\* C9: every invocation of dailyTask, started by the schedule or by POST
\* /trigger, with the fetch succeeding or failing (a failed fetch counts as
\* an empty list), calls the fetch, the normalizer and generateMessage once
\* each, in this order, and then postToX exactly once, with the string
\* generateMessage returned in that invocation.
C9_OnePublishCallPerRun ==
  \A i \in 1..MaxRuns :
    LET run == runs[i]
    IN  /\ IsPrefix(run.calls, ExpectedCalls)
        /\ run.pc = "idle" <=> run.calls = <<>>
        /\ run.pc = "fetch" <=> run.calls = <<"fetchRecentSubmissions">>
        /\ run.pc \in {"auth", "tweet", "done"} =>
             /\ run.calls = ExpectedCalls
             /\ run.fetchFailed => run.submissions = <<>>
             /\ run.submissions = <<>> => run.problems = <<>>
             /\ \E r \in 0..(Len(INSULT_MESSAGES) - 1) :
                  run.message = generateMessage(run.problems, r)
             /\ run.postArg = run.message
        /\ \A t \in tweets : t.run = i => t.text = run.message

\* a scheduled run and a manual run have both ended, one after a failed
\* fetch and one after a successful fetch
C9_Witness ==
  \E i, j \in 1..MaxRuns :
    /\ runs[i].pc = "done" /\ runs[i].trigger = "cron"
    /\ runs[j].pc = "done" /\ runs[j].trigger = "manual"
    /\ runs[i].fetchFailed # runs[j].fetchFailed

\* C10: under any interleaving of cron firings and POST /trigger requests,
\* at most one daily report is published per 24-hour window.
C10_OneReportPerWindow ==
  \A d \in 0..MaxDays : Cardinality({t \in tweets : t.day = d}) <= 1

====
